---------------------------- MODULE Spec2Model ----------------------------
(***************************************************************************)
(* Model of api/pdf-to-png-api-pureclaim/mainpdf.py: the two FastAPI       *)
(* operations POST /parse-pdf-to-markdown/ (parse_pdf, which calls         *)
(* parse_pdf_to_markdown) and POST /convert-pdf-to-png/                    *)
(* (convert_pdf_to_png), the scratch file /tmp/temp.pdf they share, and    *)
(* the outcomes of the collaborators they call (requests.get, open/write,  *)
(* LlamaParse.get_json_result, os.remove).                                 *)
(*                                                                         *)
(* A request is a small process: pc[r] is the line group it is about to    *)
(* execute.  Every call into a collaborator is one step, so that steps of  *)
(* two requests can interleave where the deployment allows it.             *)
(***************************************************************************)
EXTENDS Integers, Sequences, FiniteSets, TLC

VARIABLES
    pc,             \* pc[r]: where request r stands in its handler
    req,            \* req[r]: the request body (PDFRequest / PDFToPNGRequest)
    response,       \* response[r]: the local `response` of requests.get
    fs,             \* fs[p]: content of the file at path p, or Absent
    fd,             \* fd[r]: the file object `f` of the with-block
    markdown_pages, \* markdown_pages[r]: the local of parse_pdf_to_markdown
    exc,            \* exc[r]: the exception propagating out of the current call
    reply,          \* reply[r]: the HTTP answer sent to the client
    io_log          \* io_log[r]: the collaborator calls r has made so far

vars == <<pc, req, response, fs, fd, markdown_pages, exc, reply, io_log>>

----------------------------------------------------------------------------
(* Bounds of the model. *)

\* Longest downloaded body, in pages.
MaxLen == 2
\* How far beyond [MinZoom, MaxZoom] the requested zoom ranges.
ZoomSlack == 1

(* Constants of the program. *)

\* mainpdf.py:97  `if zoom < 1 or zoom > 10`
MinZoom == 1
MaxZoom == 10
\* mainpdf.py:36 and :102  `response.status_code != 200`
StatusOK == 200

----------------------------------------------------------------------------
(* Values. *)

Reqs == {"r1", "r2"}

\* A downloaded body is a sequence of page tokens.
Pages == {"a", "b"}
Docs == UNION {[1..n -> Pages] : n \in 0..MaxLen}

\* Status codes a source URL may answer with: 200, another 2xx, a 3xx, a 4xx.
Statuses == {200, 204, 304, 404}

\* The body of an answer: any document with a 200; the body of any other
\* answer is never read, and is left out.
Bodies(status_code) == IF status_code = 200 THEN Docs ELSE {<<>>}

\* Requested zooms: the values around both ends of the accepted range.
Zooms ==
    ((MinZoom - ZoomSlack)..(MinZoom + ZoomSlack))
        \cup ((MaxZoom - ZoomSlack)..(MaxZoom + ZoomSlack))

\* The state of a path of the file system: no file, or a file and its bytes.
Absent == [exists |-> FALSE, data |-> <<>>]
File(data) == [exists |-> TRUE, data |-> data]

NoResponse == [status_code |-> 0, content |-> <<>>]
NoPages == [none |-> TRUE]
NoReply == [status_code |-> 0]

\* Names bound in the module namespace when a handler runs: the imports of
\* lines 1-6 and the module-level assignments and definitions.
ModuleNames ==
    {"os", "requests", "FastAPI", "HTTPException", "BaseModel", "LlamaParse",
     "load_dotenv", "app", "api_key", "PDFRequest", "parse_pdf_to_markdown",
     "parse_pdf", "PDFToPNGRequest", "convert_pdf_to_png"}

TempPdfPathPerRequest(r) == "/tmp/" \o r

\* temp_pdf_path = "/tmp/temp.pdf": the same path for every request.
TempPdfPath(r) == "/tmp/temp.pdf"

Paths == {TempPdfPath(r) : r \in Reqs}

Exception(type, msg) == [type |-> type, msg |-> msg]

StrType(e) == e.type

\* str(e)
Str(e) == e.msg

\* HTTPException(status_code=..., detail=...) as FastAPI answers it.
HTTPException(status_code, detail) ==
    [status_code |-> status_code, detail |-> detail]

\* What the external parser returns for the bytes it read.
Markdown(bytes) == [markdown_of |-> bytes]

NoException == Exception("None", "")

----------------------------------------------------------------------------
(* The collaborators. *)

\* requests.get(pdf_url): the transport raises, or the source answers with
\* a status code and a body.
ConnectionError == Exception("ConnectionError", "connection failed")

OpenKeep(old) == File(old.data)

\* open(temp_pdf_path, "wb") creates the file or truncates the one there.
OpenWb(old) == File(<<>>)

\* f.write(data) at offset 0 of the file the handle refers to: bytes already
\* there beyond the written ones stay.
Overlay(data, old) == data \o SubSeq(old, Len(data) + 1, Len(old))

OpenError == Exception("OSError", "cannot open /tmp/temp.pdf")
WriteError == Exception("OSError", "write failed")
FileNotFoundError == Exception("FileNotFoundError", "No such file: /tmp/temp.pdf")
PermissionError == Exception("PermissionError", "Operation not permitted: /tmp/temp.pdf")
ExtractionError == Exception("Exception", "extraction failed")
IndexError == Exception("IndexError", "list index out of range")
NameError == Exception("NameError", "name 'io' is not defined")

\* `raise Exception(f"Failed to download PDF. Status code: {status_code}")`
DownloadFailed(status_code) ==
    Exception("Exception", <<"Failed to download PDF. Status code: ", status_code>>)

MdStatusNotServerError(status_code) == status_code < 500

\* `response.status_code != 200` negated, in parse_pdf_to_markdown.
MdStatusOk(status_code) == status_code = StatusOK

PngStatus2xx(status_code) == status_code \in 200..299

\* `response.status_code != 200` negated, in convert_pdf_to_png.
PngStatusOk(status_code) == status_code = StatusOK

ZoomInvalidAnd(zoom) == zoom < MinZoom /\ zoom > MaxZoom

\* `zoom < 1 or zoom > 10`
ZoomInvalid(zoom) == zoom < MinZoom \/ zoom > MaxZoom

MdHandler400(e) == HTTPException(400, Str(e))

\* `except Exception as e: raise HTTPException(status_code=500, detail=str(e))`
MdHandler(e) == HTTPException(500, Str(e))

\* HTTPException(400, "Zoom level must be between 1 and 10.")
ZoomRejected == HTTPException(400, "Zoom level must be between 1 and 10.")

\* HTTPException(400, "Failed to download the PDF. Please check the URL.")
PngDownloadRejected ==
    HTTPException(400, "Failed to download the PDF. Please check the URL.")

UnhandledSwallowed(e) ==
    [status_code |-> 200, message |-> "Conversion successful", images |-> <<>>]

\* An exception no handler catches leaves the endpoint function: the server
\* answers 500 Internal Server Error.
Unhandled(e) == HTTPException(500, "Internal Server Error")

\* {"message": "Parsing successful", "markdown_pages": markdown_pages}
MdSuccess(pages) ==
    [status_code |-> 200, message |-> "Parsing successful", markdown_pages |-> pages]

----------------------------------------------------------------------------
(* Steps shared by the actions. *)

Log(r, step) == io_log' = [io_log EXCEPT ![r] = @ \cup {step}]

\* An exception leaves the current call of request r: control goes to `to`.
Raise(r, e, to) ==
    /\ exc' = [exc EXCEPT ![r] = e]
    /\ pc' = [pc EXCEPT ![r] = to]

\* The answer of request r is sent.
Answer(r, a) ==
    /\ reply' = [reply EXCEPT ![r] = a]
    /\ pc' = [pc EXCEPT ![r] = "done"]

\* No request is being handled.
Quiet == \A q \in Reqs : pc[q] \in {"idle", "done"}

----------------------------------------------------------------------------
Init ==
    /\ pc = [r \in Reqs |-> "idle"]
    /\ req = [r \in Reqs |-> [op |-> "none"]]
    /\ response = [r \in Reqs |-> NoResponse]
    /\ fs = [p \in Paths |-> Absent]
    /\ fd = [r \in Reqs |-> "closed"]
    /\ markdown_pages = [r \in Reqs |-> NoPages]
    /\ exc = [r \in Reqs |-> NoException]
    /\ reply = [r \in Reqs |-> NoReply]
    /\ io_log = [r \in Reqs |-> {}]

(* A client posts {pdf_url} to /parse-pdf-to-markdown/. *)
ReceiveMd(r) ==
    /\ pc[r] = "idle"
    /\ req' = [req EXCEPT ![r] = [op |-> "md"]]
    /\ pc' = [pc EXCEPT ![r] = "md_fetch"]
    /\ UNCHANGED <<response, fs, fd, markdown_pages, exc, reply, io_log>>

(* A client posts {pdf_url, zoom} to /convert-pdf-to-png/. *)
ReceivePng(r) ==
    /\ pc[r] = "idle"
    /\ \E zoom \in Zooms : req' = [req EXCEPT ![r] = [op |-> "png", zoom |-> zoom]]
    /\ pc' = [pc EXCEPT ![r] = "png_validate"]
    /\ UNCHANGED <<response, fs, fd, markdown_pages, exc, reply, io_log>>

(* parse_pdf_to_markdown, lines 35-37: download, then the status check. *)
MdFetch(r) ==
    /\ pc[r] = "md_fetch"
    /\ Log(r, "fetch")
    /\ \/ /\ Raise(r, ConnectionError, "md_except")
          /\ UNCHANGED response
       \/ \E status_code \in Statuses : \E content \in Bodies(status_code) :
            /\ response' = [response EXCEPT ![r] =
                              [status_code |-> status_code, content |-> content]]
            /\ IF MdStatusOk(status_code)
                 THEN pc' = [pc EXCEPT ![r] = "md_open"] /\ UNCHANGED exc
                 ELSE Raise(r, DownloadFailed(status_code), "md_except")
    /\ UNCHANGED <<req, fs, fd, markdown_pages, reply>>

(* Line 41: open(temp_pdf_path, "wb"). *)
MdOpen(r) ==
    /\ pc[r] = "md_open"
    /\ Log(r, "open")
    /\ \/ /\ Raise(r, OpenError, "md_except")
          /\ UNCHANGED <<fs, fd>>
       \/ /\ fs' = [fs EXCEPT ![TempPdfPath(r)] = OpenWb(@)]
          /\ fd' = [fd EXCEPT ![r] = "linked"]
          /\ pc' = [pc EXCEPT ![r] = "md_write"]
          /\ UNCHANGED exc
    /\ UNCHANGED <<req, response, markdown_pages, reply>>

\* The file at r's scratch path after r wrote `data` through its handle: a
\* handle whose file was removed meanwhile writes to the removed file.
Written(r, data) ==
    IF fd[r] = "linked"
      THEN [fs EXCEPT ![TempPdfPath(r)] = File(Overlay(data, @.data))]
      ELSE fs

(* Line 42 and the end of the with-block: f.write(response.content), close. *)
MdWrite(r) ==
    /\ pc[r] = "md_write"
    /\ Log(r, "write")
    /\ fd' = [fd EXCEPT ![r] = "closed"]
    /\ \/ /\ fs' = Written(r, response[r].content)
          /\ pc' = [pc EXCEPT ![r] = "md_parse"]
          /\ UNCHANGED exc
       \/ \E k \in 0..(Len(response[r].content) - 1) :
            /\ fs' = Written(r, SubSeq(response[r].content, 1, k))
            /\ Raise(r, WriteError, "md_except")
    /\ UNCHANGED <<req, response, markdown_pages, reply>>

(* Lines 54-71: LlamaParse(...).get_json_result(temp_pdf_path), then        *)
(* json_result[0]["pages"].                                                *)
MdParse(r) ==
    /\ pc[r] = "md_parse"
    /\ Log(r, "parse")
    /\ IF ~fs[TempPdfPath(r)].exists
         THEN /\ Raise(r, FileNotFoundError, "md_except")
              /\ UNCHANGED markdown_pages
         ELSE \/ /\ Raise(r, ExtractionError, "md_except")
                 /\ UNCHANGED markdown_pages
              \/ /\ Raise(r, IndexError, "md_except")
                 /\ UNCHANGED markdown_pages
              \/ /\ markdown_pages' = [markdown_pages EXCEPT ![r] =
                                          Markdown(fs[TempPdfPath(r)].data)]
                 /\ pc' = [pc EXCEPT ![r] = "md_remove"]
                 /\ UNCHANGED exc
    /\ UNCHANGED <<req, response, fs, fd, reply>>

\* Handles on the file at path p lose it when the path is unlinked.
Unlinked(p) ==
    [q \in Reqs |-> IF fd[q] = "linked" /\ TempPdfPath(q) = p THEN "unlinked" ELSE fd[q]]

(* Lines 74-75 and 82: os.remove(temp_pdf_path), return, the success answer. *)
MdRemove(r) ==
    /\ pc[r] = "md_remove"
    /\ Log(r, "remove")
    /\ IF ~fs[TempPdfPath(r)].exists
         THEN /\ Raise(r, FileNotFoundError, "md_except")
              /\ UNCHANGED <<fs, fd, reply>>
         ELSE \/ /\ Raise(r, PermissionError, "md_except")
                 /\ UNCHANGED <<fs, fd, reply>>
              \/ /\ fs' = [fs EXCEPT ![TempPdfPath(r)] = Absent]
                 /\ fd' = Unlinked(TempPdfPath(r))
                 /\ Answer(r, MdSuccess(markdown_pages[r]))
                 /\ UNCHANGED exc
    /\ UNCHANGED <<req, response, markdown_pages>>

(* Lines 83-84: parse_pdf's except clause. *)
MdExcept(r) ==
    /\ pc[r] = "md_except"
    /\ Answer(r, MdHandler(exc[r]))
    /\ UNCHANGED <<req, response, fs, fd, markdown_pages, exc, io_log>>

(* Lines 93-98: the zoom check. *)
PngValidate(r) ==
    /\ pc[r] = "png_validate"
    /\ IF ZoomInvalid(req[r].zoom)
         THEN Answer(r, ZoomRejected)
         ELSE pc' = [pc EXCEPT ![r] = "png_fetch"] /\ UNCHANGED reply
    /\ UNCHANGED <<req, response, fs, fd, markdown_pages, exc, io_log>>

(* Lines 101-103: download, then the status check; outside the try. *)
PngFetch(r) ==
    /\ pc[r] = "png_fetch"
    /\ Log(r, "fetch")
    /\ \/ /\ Raise(r, ConnectionError, "png_unhandled")
          /\ UNCHANGED <<response, reply>>
       \/ \E status_code \in Statuses : \E content \in Bodies(status_code) :
            /\ response' = [response EXCEPT ![r] =
                              [status_code |-> status_code, content |-> content]]
            /\ IF PngStatusOk(status_code)
                 THEN pc' = [pc EXCEPT ![r] = "png_buffer"] /\ UNCHANGED reply
                 ELSE Answer(r, PngDownloadRejected)
            /\ UNCHANGED exc
    /\ UNCHANGED <<req, fs, fd, markdown_pages>>

(* Line 105: pdf_data = io.BytesIO(response.content), outside the try. The *)
(* module never imports io (nor fitz, Image, base64, the names lines       *)
(* 109-122 use), so looking the name up raises NameError.                  *)
PngBuffer(r) ==
    /\ pc[r] = "png_buffer"
    /\ "io" \notin ModuleNames
    /\ Raise(r, NameError, "png_unhandled")
    /\ UNCHANGED <<req, response, fs, fd, markdown_pages, reply, io_log>>

(* An exception left convert_pdf_to_png: the server answers for it. *)
PngUnhandled(r) ==
    /\ pc[r] = "png_unhandled"
    /\ Answer(r, Unhandled(exc[r]))
    /\ UNCHANGED <<req, response, fs, fd, markdown_pages, exc, io_log>>

(* The answer is delivered; the locals of the request are gone. *)
Close(r) ==
    /\ pc[r] = "done"
    /\ pc' = [pc EXCEPT ![r] = "idle"]
    /\ req' = [req EXCEPT ![r] = [op |-> "none"]]
    /\ response' = [response EXCEPT ![r] = NoResponse]
    /\ markdown_pages' = [markdown_pages EXCEPT ![r] = NoPages]
    /\ exc' = [exc EXCEPT ![r] = NoException]
    /\ reply' = [reply EXCEPT ![r] = NoReply]
    /\ io_log' = [io_log EXCEPT ![r] = {}]
    /\ UNCHANGED <<fs, fd>>

MdStep(r) ==
    \/ MdFetch(r)
    \/ MdOpen(r)
    \/ MdWrite(r)
    \/ MdParse(r)
    \/ MdRemove(r)
    \/ MdExcept(r)

PngStep(r) ==
    \/ PngValidate(r)
    \/ PngFetch(r)
    \/ PngBuffer(r)
    \/ PngUnhandled(r)

(* One server process, as `uvicorn.run(app, ...)` starts it: both endpoint *)
(* functions are `async def` and never await, so a request runs to its     *)
(* answer before the next one starts.                                      *)
ReceiveSerial(r) == Quiet /\ (ReceiveMd(r) \/ ReceivePng(r))

Next == \E r \in Reqs : ReceiveSerial(r) \/ MdStep(r) \/ PngStep(r) \/ Close(r)

Spec == Init /\ [][Next]_vars

(* Markdown requests in several server processes on one host: each process *)
(* runs its requests one at a time, and all of them use /tmp/temp.pdf.     *)
NextConcurrent == \E r \in Reqs : ReceiveMd(r) \/ MdStep(r) \/ Close(r)

SpecConcurrent == Init /\ [][NextConcurrent]_vars

----------------------------------------------------------------------------
(* The claims. *)

Answered(r) == response[r] # NoResponse
IsMd(r) == req[r].op = "md"
IsPng(r) == req[r].op = "png"
ZoomOutOfRange(r) == IsPng(r) /\ req[r].zoom \notin 1..10
\* The source URL answered, with a status other than 200.
DownloadFailure(r) == Answered(r) /\ response[r].status_code # 200
IsError(a) == a.status_code \in {400, 500} /\ DOMAIN a = {"status_code", "detail"}

\* C1: a conversion request whose zoom is outside [1,10] is answered 400, and
\* no fetch nor any other collaborator call is made for it.
C1_ZoomRejectedBeforeIO ==
    \A r \in Reqs :
        (ZoomOutOfRange(r) /\ pc[r] # "png_validate") =>
            /\ pc[r] = "done"
            /\ reply[r].status_code = 400
            /\ io_log[r] = {}
            /\ ~Answered(r)

C1_Witness ==
    \E r \in Reqs :
        /\ pc[r] = "done" /\ IsPng(r) /\ req[r].zoom > 10
        /\ reply[r].status_code = 400 /\ io_log[r] = {}

\* C2: once the source URL answered with a non-2xx status, the request makes
\* no further collaborator call (no scratch file opened or written, no parse,
\* no render) and ends in an error right after the fetch.
C2_Non2xxStopsAfterFetch ==
    \A r \in Reqs :
        (Answered(r) /\ response[r].status_code \notin 200..299) =>
            /\ io_log[r] = {"fetch"}
            /\ fd[r] = "closed"
            /\ markdown_pages[r] = NoPages
            /\ pc[r] \in {"md_except", "done"}
            /\ pc[r] = "done" => IsError(reply[r])

C2_Witness ==
    \E r \in Reqs :
        /\ pc[r] = "done" /\ IsMd(r) /\ response[r].status_code = 404
        /\ io_log[r] = {"fetch"} /\ IsError(reply[r])

\* C3 (as claimed): at the moment a Markdown request that reached the parser
\* finishes, with success or with an error, the scratch file does not exist.
C3_ScratchDeletedWhenFinished ==
    [][\A r \in Reqs :
         (pc[r] # "done" /\ pc'[r] = "done" /\ IsMd(r) /\ "parse" \in io_log'[r])
             => ~fs'[TempPdfPath(r)].exists]_vars

\* C4 (as claimed): a conversion request with a zoom in [1,10] whose source
\* answered 200 with a document of N pages is answered with N images whose
\* page numbers are 1..N in order.
C4_OnePagePerSourcePage ==
    \A r \in Reqs :
        (pc[r] = "done" /\ IsPng(r) /\ ~ZoomOutOfRange(r)
            /\ Answered(r) /\ response[r].status_code = 200) =>
            /\ reply[r].status_code = 200
            /\ [i \in DOMAIN reply[r].images |-> reply[r].images[i].page_number]
                  = [i \in 1..Len(response[r].content) |-> i]

C6_DownloadFailureIs400 ==
    \A r \in Reqs :
        (pc[r] = "done" /\ DownloadFailure(r)) => reply[r].status_code = 400

\* C6 (amended): a zoom outside [1,10] and, in the conversion operation, a
\* source answering with a status other than 200 are answered 400; in the
\* Markdown operation a source answering with a status other than 200 is
\* answered 500; every exception raised by a collaborator is answered 500.
C6_StatusMapping ==
    \A r \in Reqs :
        pc[r] = "done" =>
            reply[r].status_code =
                CASE ZoomOutOfRange(r) -> 400
                  [] IsPng(r) /\ DownloadFailure(r) -> 400
                  [] IsMd(r) /\ DownloadFailure(r) -> 500
                  [] exc[r] # NoException -> 500
                  [] OTHER -> 200

C6_Witness ==
    \E r \in Reqs :
        /\ pc[r] = "done" /\ IsMd(r) /\ response[r].status_code = 304
        /\ reply[r].status_code = 500

\* C7: a Markdown request whose pipeline raised anywhere is answered 500 with
\* the message of that exception; it is answered with the success message and
\* the parser's pages only when all five steps ran and none raised.
C7_Md500OnAnyFailure ==
    \A r \in Reqs :
        (pc[r] = "done" /\ IsMd(r)) =>
            IF exc[r] # NoException
              THEN reply[r] = [status_code |-> 500, detail |-> exc[r].msg]
              ELSE /\ reply[r] = MdSuccess(markdown_pages[r])
                   /\ markdown_pages[r] # NoPages
                   /\ response[r].status_code = 200
                   /\ io_log[r] = {"fetch", "open", "write", "parse", "remove"}

C7_Witness ==
    \E r \in Reqs :
        /\ pc[r] = "done" /\ IsMd(r)
        /\ exc[r] = FileNotFoundError /\ "remove" \in io_log[r]
        /\ reply[r].status_code = 500

\* C8: the scratch path is shared without a lock.  While request r has
\* written its bytes and waits for its parser, another request q that opens
\* the scratch file empties the file r is about to parse, and another
\* request q that deletes the scratch file leaves r no file to parse.
C8_SharedScratchRace ==
    [][\A r, q \in Reqs :
         (r # q /\ pc[r] = "md_parse" /\ pc'[r] = "md_parse") =>
            /\ (pc[q] = "md_open" /\ pc'[q] = "md_write")
                  => fs'[TempPdfPath(r)] = File(<<>>)
            /\ (pc[q] = "md_remove" /\ pc'[q] = "done")
                  => ~fs'[TempPdfPath(r)].exists]_vars

\* One request is answered with the pages of bytes it never downloaded, and
\* the other is answered "file not found".
C8_Witness ==
    \E r, q \in Reqs :
        /\ r # q /\ pc[r] = "done" /\ pc[q] = "done"
        /\ reply[r].status_code = 200
        /\ markdown_pages[r] # Markdown(response[r].content)
        /\ reply[q] = MdHandler(FileNotFoundError)

\* C9: once the source URL answered with any status other than 200, another
\* 2xx included, the request makes no further collaborator call and is
\* answered 400 (conversion) or 500 (Markdown).
C9_Only200IsSuccess ==
    \A r \in Reqs :
        DownloadFailure(r) =>
            /\ io_log[r] = {"fetch"}
            /\ fd[r] = "closed"
            /\ pc[r] \in {"md_except", "done"}
            /\ pc[r] = "done" =>
                  reply[r].status_code = (IF IsPng(r) THEN 400 ELSE 500)

C9_Witness ==
    \E r \in Reqs :
        /\ pc[r] = "done" /\ IsPng(r) /\ response[r].status_code = 204
        /\ reply[r] = PngDownloadRejected /\ io_log[r] = {"fetch"}

\* C10: with requests handled one at a time, the parser of a request reads
\* exactly the bytes that request downloaded, whatever an earlier request
\* left in the scratch file.
C10_ParserReadsOwnDownload ==
    \A r \in Reqs :
        /\ pc[r] = "md_parse" => fs[TempPdfPath(r)] = File(response[r].content)
        /\ markdown_pages[r] # NoPages
              => markdown_pages[r] = Markdown(response[r].content)

\* An earlier request failed in the parser and left its bytes behind; a later
\* one with another download got the pages of its own bytes.
C10_Witness ==
    \E r, q \in Reqs :
        /\ r # q
        /\ pc[q] = "done" /\ exc[q] = ExtractionError
        /\ Len(response[q].content) > Len(response[r].content)
        /\ pc[r] = "md_remove"
        /\ markdown_pages[r] = Markdown(response[r].content)

============================================================================
